---- MODULE Spec2Model ----
(***************************************************************************)
(* Model of the map-segmentation frontend (src/src/main.rs): the Yew       *)
(* component App, its three messages AddNewImage, FinishRead, FinishSend,  *)
(* the file-read callbacks, the request future and the base64 conversion   *)
(* at the wire and display boundary.                                       *)
(***************************************************************************)
EXTENDS Integers, Sequences, FiniteSets, TLC

(***************************************************************************)
(* Bounds of the model.                                                    *)
(***************************************************************************)
\* number of AddNewImage messages (file selections) in one run
MaxSelections == 2
\* number of file reads started in one run, over all selections
MaxReads == 2
\* length of the byte sequences the base64 conversion is run on
MaxBytes == 3

(***************************************************************************)
(* Option<T>: None and Some(x), as sequences of length 0 and 1.            *)
(***************************************************************************)
None == << >>
Some(x) == << x >>
IsSome(o) == o # None
Unwrap(o) == o[1]

(***************************************************************************)
(* Base64, STANDARD engine: the alphabet is written as sextet values 0..63 *)
(* ("A" is 0), Pad is "=".  Bytes are 0..255.                              *)
(***************************************************************************)
Pad == 64

\* STANDARD_encode with a fault: the third sextet of a two-byte rest is not
\* shifted
RECURSIVE STANDARD_encodeNoShift(_)
STANDARD_encodeNoShift(bytes) ==
    IF Len(bytes) = 0 THEN << >>
    ELSE IF Len(bytes) = 1 THEN
        << bytes[1] \div 4, (bytes[1] % 4) * 16, Pad, Pad >>
    ELSE IF Len(bytes) = 2 THEN
        << bytes[1] \div 4,
           (bytes[1] % 4) * 16 + bytes[2] \div 16,
           bytes[2] % 16,
           Pad >>
    ELSE
        << bytes[1] \div 4,
           (bytes[1] % 4) * 16 + bytes[2] \div 16,
           (bytes[2] % 16) * 4 + bytes[3] \div 64,
           bytes[3] % 64 >>
        \o STANDARD_encodeNoShift(SubSeq(bytes, 4, Len(bytes)))

RECURSIVE STANDARD_encode(_)
STANDARD_encode(bytes) ==
    IF Len(bytes) = 0 THEN << >>
    ELSE IF Len(bytes) = 1 THEN
        << bytes[1] \div 4, (bytes[1] % 4) * 16, Pad, Pad >>
    ELSE IF Len(bytes) = 2 THEN
        << bytes[1] \div 4,
           (bytes[1] % 4) * 16 + bytes[2] \div 16,
           (bytes[2] % 16) * 4,
           Pad >>
    ELSE
        << bytes[1] \div 4,
           (bytes[1] % 4) * 16 + bytes[2] \div 16,
           (bytes[2] % 16) * 4 + bytes[3] \div 64,
           bytes[3] % 64 >>
        \o STANDARD_encode(SubSeq(bytes, 4, Len(bytes)))

\* the last quantum of a padded text: which of its shapes are accepted
LastQuantumOk(q) ==
    /\ q[1] # Pad
    /\ q[2] # Pad
    /\ \/ q[3] # Pad /\ q[4] # Pad
       \/ q[3] # Pad /\ q[4] = Pad /\ q[3] % 4 = 0
       \/ q[3] = Pad /\ q[4] = Pad /\ q[2] % 16 = 0

\* STANDARD.decode succeeds: whole quanta, padding only at the end and
\* canonical, no trailing bits
DecodeOk(text) ==
    /\ Len(text) % 4 = 0
    /\ \A i \in 1..Len(text) : text[i] = Pad => i >= Len(text) - 1
    /\ Len(text) > 0 => LastQuantumOk(SubSeq(text, Len(text) - 3, Len(text)))

RECURSIVE DecodeBytes(_)
DecodeBytes(text) ==
    IF Len(text) = 0 THEN << >>
    ELSE
        LET q == SubSeq(text, 1, 4)
            b1 == q[1] * 4 + q[2] \div 16
            b2 == (q[2] % 16) * 16 + (IF q[3] = Pad THEN 0 ELSE q[3] \div 4)
            b3 == (IF q[3] = Pad THEN 0 ELSE (q[3] % 4) * 64)
                  + (IF q[4] = Pad THEN 0 ELSE q[4])
            out == IF q[3] = Pad THEN << b1 >>
                   ELSE IF q[4] = Pad THEN << b1, b2 >>
                   ELSE << b1, b2, b3 >>
        IN  out \o DecodeBytes(SubSeq(text, 5, Len(text)))

\* Result<Vec<u8>, DecodeError> of STANDARD.decode
STANDARD_decode(text) ==
    IF DecodeOk(text) THEN [tag |-> "Ok", value |-> DecodeBytes(text)]
    ELSE [tag |-> "Err"]

(***************************************************************************)
(* Inputs: the files the user can select, and what the segmentation        *)
(* service can answer.                                                     *)
(***************************************************************************)
\* File::name(), File::raw_mime_type() (empty for a file of unknown type)
\* and the bytes a successful read delivers
Files ==
    { [name |-> "a.png", type |-> "image/png", bytes |-> << 0, 0, 0 >>],
      [name |-> "b.png", type |-> "image/png", bytes |-> << 255, 1 >>],
      [name |-> "a.png", type |-> "",          bytes |-> << 7 >>] }

\* Vec<File> carried by AddNewImage: every list of at most n files
RECURSIVE FileLists(_)
FileLists(n) ==
    IF n = 0 THEN { << >> }
    ELSE LET shorter == FileLists(n - 1)
         IN  shorter \cup { Append(l, f) : l \in shorter, f \in Files }

\* response bodies: text that is no JSON, a JSON object that lacks a field
\* of FileDetails, and FileDetails objects whose data is the base64 text
\* "AAAA", "/wE=" and the undecodable "A"
Bodies ==
    { [json |-> "malformed"],
      [json |-> "object", fields |-> {"file_name", "file_type"}],
      [json |-> "object", fields |-> {"file_name", "file_type", "data"},
       file_name |-> "mask.png", file_type |-> "image/png",
       data |-> << 0, 0, 0, 0 >>],
      [json |-> "object", fields |-> {"file_name", "file_type", "data"},
       file_name |-> "mask.png", file_type |-> "image/png",
       data |-> << 63, 48, 4, Pad >>],
      [json |-> "object", fields |-> {"file_name", "file_type", "data"},
       file_name |-> "mask.png", file_type |-> "image/png",
       data |-> << 0 >>] }

\* what reqwest's send().await yields: a transport error, or a response
\* with a status code and a body
Outcomes ==
    { [class |-> "transport", cause |-> "connection refused"] }
    \cup { [class |-> "response", status |-> 200, body |-> b] : b \in Bodies }
    \cup { [class |-> "response", status |-> 500, body |-> b] :
             b \in { x \in Bodies : x.json = "object" /\ "data" \in x.fields
                                    /\ x.data = << 0, 0, 0, 0 >> } }

(***************************************************************************)
(* FileDetails and its deserialization.                                    *)
(***************************************************************************)
\* FileDetails with a fault: name and type are swapped
FileDetailsSwapped(file_name, file_type, data) ==
    [file_name |-> file_type, file_type |-> file_name, data |-> data]

FileDetails(file_name, file_type, data) ==
    [file_name |-> file_name, file_type |-> file_type, data |-> data]

\* deserialize_with on FileDetails.data: the string is decoded and the
\* result unwrapped, so a decode error is a panic
deserialize_file_data(v) ==
    LET r == STANDARD_decode(v)
    IN  IF r.tag = "Ok" THEN [tag |-> "Ok", value |-> r.value]
        ELSE [tag |-> "Panic", at |-> "base64"]

\* Response::json::<FileDetails>(): Ok(FileDetails), Err(cause), or the
\* panic of deserialize_file_data
json_FileDetails(body) ==
    IF body.json = "malformed" THEN
        [tag |-> "Err", cause |-> "expected value at line 1 column 1"]
    ELSE IF body.fields # {"file_name", "file_type", "data"} THEN
        [tag |-> "Err", cause |-> "missing field data"]
    ELSE LET d == deserialize_file_data(body.data)
         IN  IF d.tag = "Panic" THEN d
             ELSE [tag |-> "Ok",
                   value |-> FileDetails(body.file_name, body.file_type, d.value)]

\* format!("<prefix>{e}"): the text is kept as the pair of its two parts
Format(prefix, e) == << prefix, e >>

StatusText(status) ==
    IF status = 500 THEN "HTTP status server error (500 Internal Server Error)"
    ELSE "HTTP status error"

\* Response::error_for_status(): Err for a 4xx or 5xx status
error_for_status(resp) ==
    IF resp.status >= 400 /\ resp.status <= 599
    THEN [tag |-> "Err", cause |-> StatusText(resp.status)]
    ELSE [tag |-> "Ok", value |-> resp]

\* RequestResult with a fault: the status of the response is not looked at
RequestResultNoStatusCheck(o) ==
    IF o.class = "transport" THEN
        [tag |-> "Err", error |-> Format("Error sending image to server: ", o.cause)]
    ELSE LET j == json_FileDetails(o.body)
         IN  IF j.tag = "Ok" THEN [tag |-> "Ok", value |-> j.value]
             ELSE IF j.tag = "Err" THEN
                 [tag |-> "Err", error |-> Format("Error in receiving json: ", j.cause)]
             ELSE j

\* `result` of the request future, from what send().await yielded
RequestResult(o) ==
    IF o.class = "transport" THEN
        [tag |-> "Err", error |-> Format("Error sending image to server: ", o.cause)]
    ELSE LET s == error_for_status(o)
         IN  IF s.tag = "Err" THEN
                 [tag |-> "Err",
                  error |-> Format("Error code in sending imaget to server: ", s.cause)]
             ELSE LET j == json_FileDetails(s.value.body)
                  IN  IF j.tag = "Ok" THEN [tag |-> "Ok", value |-> j.value]
                      ELSE IF j.tag = "Err" THEN
                          [tag |-> "Err",
                           error |-> Format("Error in receiving json: ", j.cause)]
                      ELSE j

\* Part::mime_str(): Err when the text is no MIME type
mime_str(file_type) ==
    IF file_type = "" THEN [tag |-> "Err"] ELSE [tag |-> "Ok"]

(***************************************************************************)
(* State of the program.                                                   *)
(***************************************************************************)
VARIABLES
    satellite_image,  \* App.satellite_image : Option<FileDetails>
    mask_image,       \* App.mask_image : Option<FileDetails>
    readers,          \* App.readers : file name -> handle of a read task
    reading,          \* the read tasks the browser is still working on
    futures,          \* the request futures given to send_future
    crashed,          \* "no", or the place of the panic that ended the run
    nsel,             \* history: number of AddNewImage messages processed
    nread,            \* history: number of read tasks started
    latest,           \* history: the read tasks of the last AddNewImage
    single,           \* history: every AddNewImage so far carried one file
    satellite_src,    \* history: the read task satellite_image came from
    mask_src,         \* history: the read task whose request mask_image answers
    last,             \* history: the message update processed last
    finished,         \* history: the read tasks whose FinishRead was processed
    requests,         \* history: per read task, the requests issued for it
    codec             \* the base64 conversion run on its own: input and results

appvars == << satellite_image, mask_image, readers, reading, futures, crashed,
              nsel, nread, latest, single, satellite_src, mask_src, last,
              finished, requests >>

vars == << appvars, codec >>

server_url == "http://localhost:8000"

NoResp == [tag |-> "None"]
NoOutcome == [class |-> "none"]

\* the record kept in `last`: the message, the read task it belongs to, the
\* number of selections made when that task's read finished, what the service
\* answered and the Result a FinishSend carried, and both slots as they were
\* before the message
Processed(msg, id, epoch, outcome, resp) ==
    [msg |-> msg, id |-> id, epoch |-> epoch, outcome |-> outcome, resp |-> resp,
     pre |-> << satellite_image, mask_image >>]

AppInit ==
    /\ satellite_image = None
    /\ mask_image = None
    /\ readers = << >>
    /\ reading = {}
    /\ futures = {}
    /\ crashed = "no"
    /\ nsel = 0
    /\ nread = 0
    /\ latest = {}
    /\ single = TRUE
    /\ satellite_src = 0
    /\ mask_src = 0
    /\ last = [msg |-> "create", id |-> 0, epoch |-> 0, outcome |-> NoOutcome,
               resp |-> NoResp, pre |-> << None, None >>]
    /\ finished = {}
    /\ requests = << >>

CodecIdle == [pc |-> "idle", bytes |-> << >>, text |-> << >>, decoded |-> NoResp]

Init == AppInit /\ codec = CodecIdle

(***************************************************************************)
(* The readers map.  A FileReader handle that is dropped aborts its read   *)
(* if the read has not finished, and the callback of that read never runs. *)
(***************************************************************************)
Drop(tasks, handle) == { t \in tasks : t.id # handle }

\* HashMap::insert: the handle stored under the name before is dropped
Insert(map, tasks, name, handle) ==
    [map   |-> [n \in DOMAIN map \cup {name} |->
                   IF n = name THEN handle ELSE map[n]],
     tasks |-> IF name \in DOMAIN map THEN Drop(tasks, map[name]) ELSE tasks]

\* Remove with a fault: the whole map is cleared, every handle is dropped
RemoveAll(map, tasks, name) ==
    [map   |-> << >>,
     tasks |-> { t \in tasks : \A n \in DOMAIN map : map[n] # t.id }]

\* HashMap::remove: the handle stored under the name, if any, is dropped
Remove(map, tasks, name) ==
    [map   |-> [n \in DOMAIN map \ {name} |-> map[n]],
     tasks |-> IF name \in DOMAIN map THEN Drop(tasks, map[name]) ELSE tasks]

\* the body of `for file in files.into_iter()`, from the i-th file on
RECURSIVE StartReads(_, _, _, _)
StartReads(files, i, map, tasks) ==
    IF i > Len(files) THEN [map |-> map, tasks |-> tasks]
    ELSE LET file == files[i]
             task == [id |-> nread + i, sel |-> nsel + 1, file |-> file]
             ins  == Insert(map, tasks, file.name, task.id)
         IN  StartReads(files, i + 1, ins.map, ins.tasks \cup {task})

(***************************************************************************)
(* update: one action per message.                                         *)
(***************************************************************************)
\* AddNewImage with a fault: mask_image is not cleared
AddNewImageKeepsMask(files) ==
    /\ crashed = "no"
    /\ nsel < MaxSelections
    /\ nread + Len(files) <= MaxReads
    /\ satellite_image' = None
    /\ mask_image' = mask_image
    /\ LET started == StartReads(files, 1, readers, reading)
       IN  /\ readers' = started.map
           /\ reading' = started.tasks
    /\ nsel' = nsel + 1
    /\ nread' = nread + Len(files)
    /\ latest' = (nread + 1) .. (nread + Len(files))
    /\ single' = (single /\ Len(files) = 1)
    /\ satellite_src' = 0
    /\ mask_src' = mask_src
    /\ last' = Processed("AddNewImage", 0, nsel + 1, NoOutcome, NoResp)
    /\ UNCHANGED << futures, crashed, finished, requests >>

\* AddNewImage with a fault: readers is cleared first, which drops the handles
\* of the reads in flight
AddNewImageClearsReaders(files) ==
    /\ crashed = "no"
    /\ nsel < MaxSelections
    /\ nread + Len(files) <= MaxReads
    /\ satellite_image' = None
    /\ mask_image' = None
    /\ LET started == StartReads(files, 1, << >>, {})
       IN  /\ readers' = started.map
           /\ reading' = started.tasks
    /\ nsel' = nsel + 1
    /\ nread' = nread + Len(files)
    /\ latest' = (nread + 1) .. (nread + Len(files))
    /\ single' = (single /\ Len(files) = 1)
    /\ satellite_src' = 0
    /\ mask_src' = 0
    /\ last' = Processed("AddNewImage", 0, nsel + 1, NoOutcome, NoResp)
    /\ UNCHANGED << futures, crashed, finished, requests >>

\* AddNewImage with a fault: the request of each file is spawned at selection,
\* before the file is read
AddNewImageSendsAtOnce(files) ==
    /\ crashed = "no"
    /\ nsel < MaxSelections
    /\ nread + Len(files) <= MaxReads
    /\ satellite_image' = None
    /\ mask_image' = None
    /\ LET started == StartReads(files, 1, readers, reading)
       IN  /\ readers' = started.map
           /\ reading' = started.tasks
    /\ futures' = futures \cup
           { [id |-> nread + i, epoch |-> nsel + 1, pc |-> "start",
              file_name |-> files[i].name, file_type |-> files[i].type,
              data |-> << >>, outcome |-> NoOutcome] : i \in 1..Len(files) }
    /\ nsel' = nsel + 1
    /\ nread' = nread + Len(files)
    /\ latest' = (nread + 1) .. (nread + Len(files))
    /\ single' = (single /\ Len(files) = 1)
    /\ satellite_src' = 0
    /\ mask_src' = 0
    /\ last' = Processed("AddNewImage", 0, nsel + 1, NoOutcome, NoResp)
    /\ UNCHANGED << crashed, finished, requests >>

AddNewImage(files) ==
    /\ crashed = "no"
    /\ nsel < MaxSelections
    /\ nread + Len(files) <= MaxReads
    /\ satellite_image' = None
    /\ mask_image' = None
    /\ LET started == StartReads(files, 1, readers, reading)
       IN  /\ readers' = started.map
           /\ reading' = started.tasks
    /\ nsel' = nsel + 1
    /\ nread' = nread + Len(files)
    /\ latest' = (nread + 1) .. (nread + Len(files))
    /\ single' = (single /\ Len(files) = 1)
    /\ satellite_src' = 0
    /\ mask_src' = 0
    /\ last' = Processed("AddNewImage", 0, nsel + 1, NoOutcome, NoResp)
    /\ UNCHANGED << futures, crashed, finished, requests >>

\* FinishRead with a fault: satellite_image is set only while it is absent
FinishReadFirstWins(task) ==
    /\ crashed = "no"
    /\ task \in reading
    /\ LET file_name == task.file.name
           file_type == task.file.type
           data      == task.file.bytes
           removed   == Remove(readers, reading \ {task}, file_name)
       IN  /\ readers' = removed.map
           /\ reading' = removed.tasks
           /\ satellite_image' =
                  IF IsSome(satellite_image) THEN satellite_image
                  ELSE Some(FileDetails(file_name, file_type, data))
           /\ futures' = futures \cup
                  { [id |-> task.id, epoch |-> nsel, pc |-> "start",
                     file_name |-> file_name, file_type |-> file_type,
                     data |-> data, outcome |-> NoOutcome] }
    /\ satellite_src' = task.id
    /\ last' = Processed("FinishRead", task.id, nsel, NoOutcome, NoResp)
    /\ finished' = finished \cup {task.id}
    /\ UNCHANGED << mask_image, crashed, nsel, nread, latest, single, mask_src,
                    requests >>

\* the read callback with Ok(bytes), and update on the FinishRead it sends
FinishRead(task) ==
    /\ crashed = "no"
    /\ task \in reading
    /\ LET file_name == task.file.name
           file_type == task.file.type
           data      == task.file.bytes
           removed   == Remove(readers, reading \ {task}, file_name)
       IN  /\ readers' = removed.map
           /\ reading' = removed.tasks
           /\ satellite_image' = Some(FileDetails(file_name, file_type, data))
           /\ futures' = futures \cup
                  { [id |-> task.id, epoch |-> nsel, pc |-> "start",
                     file_name |-> file_name, file_type |-> file_type,
                     data |-> data, outcome |-> NoOutcome] }
    /\ satellite_src' = task.id
    /\ last' = Processed("FinishRead", task.id, nsel, NoOutcome, NoResp)
    /\ finished' = finished \cup {task.id}
    /\ UNCHANGED << mask_image, crashed, nsel, nread, latest, single, mask_src,
                    requests >>

\* the read callback with Err: res.expect("Failed to read file.") panics
ReadFailed(task) ==
    /\ crashed = "no"
    /\ task \in reading
    /\ reading' = reading \ {task}
    /\ crashed' = "read"
    /\ last' = Processed("panic", task.id, nsel, NoOutcome, NoResp)
    /\ UNCHANGED << satellite_image, mask_image, readers, futures, nsel, nread,
                    latest, single, satellite_src, mask_src, finished, requests >>

\* the multipart POST the request future builds from what it captured
Request(q) ==
    [method |-> "POST",
     url    |-> << server_url, "/segment" >>,
     part   |-> [name |-> "f[]", file_name |-> q.file_name,
                 mime |-> q.file_type, bytes |-> q.data]]

\* `requests` once one more request of a read task has been issued
Issue(reqs, id, req) ==
    [i \in DOMAIN reqs \cup {id} |->
        (IF i \in DOMAIN reqs THEN reqs[i] ELSE << >>)
        \o (IF i = id THEN << req >> ELSE << >>)]

\* the request future up to send(): the multipart body is built (mime_str
\* and unwrap) and the POST to {server_url}/segment is issued
RequestSend(q) ==
    /\ crashed = "no"
    /\ q \in futures
    /\ q.pc = "start"
    /\ IF mime_str(q.file_type).tag = "Err"
       THEN /\ crashed' = "mime"
            /\ last' = Processed("panic", q.id, q.epoch, NoOutcome, NoResp)
            /\ UNCHANGED << futures, requests >>
       ELSE /\ futures' = (futures \ {q}) \cup { [q EXCEPT !.pc = "sent"] }
            /\ requests' = Issue(requests, q.id, Request(q))
            /\ UNCHANGED << crashed, last >>
    /\ UNCHANGED << satellite_image, mask_image, readers, reading, nsel, nread,
                    latest, single, satellite_src, mask_src, finished >>

\* the segmentation service, or the network, answers a request
ServiceAnswers(q, o) ==
    /\ q \in futures
    /\ q.pc = "sent"
    /\ futures' = (futures \ {q}) \cup { [q EXCEPT !.pc = "answered", !.outcome = o] }
    /\ UNCHANGED << satellite_image, mask_image, readers, reading, crashed, nsel,
                    nread, latest, single, satellite_src, mask_src, last,
                    finished, requests >>

\* FinishSend with a fault: an Err clears mask_image
FinishSendErrClearsMask(q) ==
    /\ crashed = "no"
    /\ q \in futures
    /\ q.pc = "answered"
    /\ LET resp == RequestResult(q.outcome)
       IN  IF resp.tag = "Panic"
           THEN /\ crashed' = resp.at
                /\ last' = Processed("panic", q.id, q.epoch, q.outcome, NoResp)
                /\ UNCHANGED << futures, mask_image, mask_src >>
           ELSE /\ futures' = futures \ {q}
                /\ IF resp.tag = "Ok"
                   THEN /\ mask_image' = Some(resp.value)
                        /\ mask_src' = q.id
                   ELSE /\ mask_image' = None
                        /\ mask_src' = 0
                /\ last' = Processed("FinishSend", q.id, q.epoch, q.outcome, resp)
                /\ UNCHANGED crashed
    /\ UNCHANGED << satellite_image, readers, reading, nsel, nread, latest,
                    single, satellite_src, finished, requests >>

\* the request future from the answer on, and update on the FinishSend it
\* returns
FinishSend(q) ==
    /\ crashed = "no"
    /\ q \in futures
    /\ q.pc = "answered"
    /\ LET resp == RequestResult(q.outcome)
       IN  IF resp.tag = "Panic"
           THEN /\ crashed' = resp.at
                /\ last' = Processed("panic", q.id, q.epoch, q.outcome, NoResp)
                /\ UNCHANGED << futures, mask_image, mask_src >>
           ELSE /\ futures' = futures \ {q}
                /\ IF resp.tag = "Ok"
                   THEN /\ mask_image' = Some(resp.value)
                        /\ mask_src' = q.id
                   ELSE UNCHANGED << mask_image, mask_src >>
                /\ last' = Processed("FinishSend", q.id, q.epoch, q.outcome, resp)
                /\ UNCHANGED crashed
    /\ UNCHANGED << satellite_image, readers, reading, nsel, nread, latest,
                    single, satellite_src, finished, requests >>

\* what input.files() can be when the file input changes: no list, or a list
FileInputs == { None } \cup { Some(l) : l \in FileLists(MaxReads) }

\* upload_files: the files of the list, none when there is no list
upload_files(files) ==
    IF IsSome(files) THEN Unwrap(files) ELSE << >>

Next ==
    \/ \E input \in FileInputs : AddNewImage(upload_files(input)) /\ UNCHANGED codec
    \/ \E task \in reading : FinishRead(task) /\ UNCHANGED codec
    \/ \E task \in reading : ReadFailed(task) /\ UNCHANGED codec
    \/ \E q \in futures : RequestSend(q) /\ UNCHANGED codec
    \/ \E q \in futures, o \in Outcomes : ServiceAnswers(q, o) /\ UNCHANGED codec
    \/ \E q \in futures : FinishSend(q) /\ UNCHANGED codec

Spec == Init /\ [][Next]_vars

(***************************************************************************)
(* The base64 conversion at the wire and display boundary, run on its own: *)
(* bytes are encoded as view encodes the data of a slot, and text is       *)
(* decoded as the data field of a response is.                             *)
(***************************************************************************)
ByteAlphabet == { 0, 1, 127, 128, 255 }

RECURSIVE ByteSeqs(_)
ByteSeqs(n) ==
    IF n = 0 THEN { << >> }
    ELSE LET shorter == ByteSeqs(n - 1)
         IN  shorter \cup { Append(b, x) : b \in shorter, x \in ByteAlphabet }

\* the data texts a response can carry
WireTexts == { b.data : b \in { x \in Bodies : x.json = "object" /\ "data" \in x.fields } }

CodecInit ==
    /\ AppInit
    /\ codec \in { [pc |-> "bytes", bytes |-> b, text |-> << >>, decoded |-> NoResp] :
                      b \in ByteSeqs(MaxBytes) }

\* STANDARD.encode(&file.data) of view
EncodeForDisplay ==
    /\ codec.pc = "bytes"
    /\ codec' = [codec EXCEPT !.pc = "encoded", !.text = STANDARD_encode(codec.bytes)]

\* the data field of a response body arrives as text
ReceiveData(text) ==
    /\ codec.pc = "bytes"
    /\ codec' = [codec EXCEPT !.pc = "received", !.text = text]

\* deserialize_file_data on the text
DecodeData ==
    /\ codec.pc \in { "encoded", "received" }
    /\ codec' = [codec EXCEPT
                    !.pc = IF codec.pc = "encoded" THEN "roundtrip" ELSE "decoded",
                    !.decoded = deserialize_file_data(codec.text)]

CodecNext ==
    \/ EncodeForDisplay /\ UNCHANGED appvars
    \/ \E text \in WireTexts : ReceiveData(text) /\ UNCHANGED appvars
    \/ DecodeData /\ UNCHANGED appvars

CodecSpec == CodecInit /\ [][CodecNext]_vars

(***************************************************************************)
(* view: what is rendered, a function of the two slots alone.              *)
(***************************************************************************)
Panel(slot, placeholder) ==
    IF IsSome(slot)
    THEN [h2  |-> Unwrap(slot).file_name,
          src |-> << "data:", Unwrap(slot).file_type, ";base64,",
                     STANDARD_encode(Unwrap(slot).data) >>]
    ELSE [p |-> placeholder]

View(satellite, mask) ==
    [satellite |-> Panel(satellite, "No file uploaded."),
     segments  |-> Panel(mask, "No mask image.")]

(***************************************************************************)
(* Vocabulary of the properties.                                           *)
(***************************************************************************)
\* no read is outstanding, no request future is left, the program runs
Quiescent == crashed = "no" /\ reading = {} /\ futures = {}

\* a panic has ended the program: update processes no further message
Halted == crashed # "no"

\* the failure classes of a request
TransportFailure(o) == o.class = "transport"
StatusFailure(o) == o.class = "response" /\ ~(o.status \in 200..299)
BodyFailure(o) ==
    /\ o.class = "response"
    /\ o.status \in 200..299
    /\ \/ o.body.json = "malformed"
       \/ o.body.fields # {"file_name", "file_type", "data"}
RequestFailed(o) == TransportFailure(o) \/ StatusFailure(o) \/ BodyFailure(o)

\* a 2xx answer that is a FileDetails object whose data is no base64
BadBase64(o) ==
    /\ o.class = "response"
    /\ o.status \in 200..299
    /\ o.body.json = "object"
    /\ o.body.fields = {"file_name", "file_type", "data"}
    /\ ~DecodeOk(o.body.data)

\* a 2xx answer that is a FileDetails object with base64 data
ValidAnswer(o) ==
    /\ o.class = "response"
    /\ o.status \in 200..299
    /\ o.body.json = "object"
    /\ o.body.fields = {"file_name", "file_type", "data"}
    /\ DecodeOk(o.body.data)

\* the text of the error underlying a failed request
CauseText(o) ==
    IF TransportFailure(o) THEN o.cause
    ELSE IF StatusFailure(o) THEN StatusText(o.status)
    ELSE IF o.body.json = "malformed" THEN "expected value at line 1 column 1"
    ELSE "missing field data"

\* update has just processed a FinishSend that carried Err
FailedSendProcessed == last.msg = "FinishSend" /\ last.resp.tag = "Err"

(***************************************************************************)
(* C1..C10                                                                 *)
(***************************************************************************)

\* C1: whenever satellite_image and mask_image are both populated, mask_image
\* is the answer to the request issued for the satellite_image now held; a
\* FinishSend of an earlier selection or read never populates mask_image
\* beside a newer satellite_image.
C1_MaskAnswersHeldSatellite ==
    (IsSome(satellite_image) /\ IsSome(mask_image)) => mask_src = satellite_src

\* C2: with single-file selections, once every read and request has completed,
\* satellite_image holds the file of the most recent selection.
C2_LatestSelectionHeld ==
    (Quiescent /\ single /\ nsel >= 1) => satellite_src \in latest

\* C3: after AddNewImage is processed, in any state and for any file list,
\* satellite_image and mask_image are both absent, and no read the selection
\* started has completed.
C3_AddNewImageClearsBoth ==
    last.msg = "AddNewImage" =>
        /\ satellite_image = None
        /\ mask_image = None
        /\ \A q \in futures : q.id \notin latest

\* C3, witness: AddNewImage with a file was processed when both slots were
\* populated.
C3_Witness ==
    /\ last.msg = "AddNewImage"
    /\ IsSome(last.pre[1])
    /\ IsSome(last.pre[2])
    /\ latest # {}
    /\ satellite_image = None
    /\ mask_image = None

\* C4: for the single file of the latest selection whose read succeeded and
\* whose request got a valid answer, the answer is processed: the run does not
\* end with mask_image or satellite_image absent; and that pipeline never
\* populates mask_image while satellite_image is absent.
C4_ValidAnswerReachesMask ==
    /\ (single /\ mask_src \in latest) => IsSome(satellite_image)
    /\ \A q \in futures :
          ( /\ single
            /\ latest = {q.id}
            /\ q.pc = "answered"
            /\ ValidAnswer(q.outcome)
            /\ Halted )
          => (IsSome(satellite_image) /\ IsSome(mask_image))

C6_FailureIsRendered ==
    FailedSendProcessed =>
        View(satellite_image, mask_image) # View(last.pre[1], last.pre[2])

C8_BadBase64IsRecoverable ==
    BadBase64(last.outcome) =>
        /\ crashed = "no"
        /\ last.msg = "FinishSend"
        /\ last.resp.tag = "Err"
        /\ mask_image = last.pre[2]
        /\ satellite_image = last.pre[1]

\* C9: a failed file read does not end the program: the controller keeps
\* running and accepts a new AddNewImage.
C9_ReadFailureKeepsRunning == crashed # "read"

\* C10: the readers entry of a read is removed when the read completes, with
\* success or failure: once no started read is outstanding, readers is empty.
C10_ReadersEmptyWhenReadsDone == reading = {} => DOMAIN readers = {}

(***************************************************************************)
(* C11..C18                                                                *)
(***************************************************************************)

\* C11: the completion of a read removes from readers only the entry of that
\* read and leaves every other in-flight read tracked as it was; two reads of
\* the same file name are never in flight together, so the entry under a name
\* is always that of the one read of that name.
C11_FinishReadRemovesOwnEntry ==
    [][ /\ \A task \in reading :
             FinishRead(task) =>
                 /\ task.file.name \in DOMAIN readers
                 /\ readers[task.file.name] = task.id
                 /\ readers' = [n \in DOMAIN readers \ {task.file.name} |-> readers[n]]
                 /\ reading' = reading \ {task}
        /\ \A t1, t2 \in reading' : t1.file.name = t2.file.name => t1 = t2
      ]_vars

\* C11, witness: a FinishRead was processed while another read was in flight.
C11_Witness ==
    /\ last.msg = "FinishRead"
    /\ reading # {}
    /\ DOMAIN readers # {}
    /\ \A t \in reading : t.id # last.id /\ readers[t.file.name] = t.id

\* the read tasks a request has been issued for
Requested == { id \in DOMAIN requests : Len(requests[id]) > 0 }

\* C12: a request is issued only after the read of the file it carries has
\* completed: the step that issues one is a step of the request future that
\* the FinishRead of that read spawned earlier, not of AddNewImage, FinishRead
\* or FinishSend, and the request carries what that FinishRead delivered.
C12_RequestOnlyAfterRead ==
    [][ \A id \in DOMAIN requests' :
            (id \notin DOMAIN requests \/ requests'[id] # requests[id]) =>
                /\ id \in finished
                /\ \A t \in reading : t.id # id
                /\ last' = last
                /\ \E q \in futures :
                       /\ q.id = id
                       /\ q.pc = "start"
                       /\ requests'[id] = << Request(q) >>
      ]_vars

\* C12, witness: a request was issued for a finished read while another read
\* was still in flight.
C12_Witness ==
    /\ \E id \in Requested : id \in finished
    /\ reading # {}

\* the request future q has run up to send(), or has ended in the panic of
\* mime_str(..).unwrap()
Ran(q) ==
    \/ q.pc # "start"
    \/ crashed = "mime" /\ last.msg = "panic" /\ last.id = q.id

\* C13: exactly one request is issued per successfully completed read and none
\* is issued again: once every spawned request future has run, the reads with
\* a request are the reads whose FinishRead was processed, each with one
\* request, also after a FinishSend that carried Err.
C13_OneRequestPerRead ==
    /\ \A id \in DOMAIN requests : Len(requests[id]) <= 1
    /\ (\A q \in futures : Ran(q)) => Requested = finished
    /\ FailedSendProcessed => Len(requests[last.id]) = 1

\* C14: a successful read leaves in satellite_image the bytes the read
\* delivered with the name and MIME type taken at selection, and the request
\* issued for that read carries the same bytes, name and MIME type.
C14_SatelliteAndRequestCarryFile ==
    [][ /\ \A task \in reading :
             FinishRead(task) =>
                 /\ satellite_image' = Some([file_name |-> task.file.name,
                                              file_type |-> task.file.type,
                                              data      |-> task.file.bytes])
                 /\ \E q \in futures' :
                        /\ q.id = task.id
                        /\ q.pc = "start"
                        /\ q.file_name = task.file.name
                        /\ q.file_type = task.file.type
                        /\ q.data = task.file.bytes
        /\ \A id \in DOMAIN requests' :
             (Len(requests'[id]) > 0 /\ satellite_src' = id) =>
                 /\ IsSome(satellite_image')
                 /\ requests'[id] =
                        << [method |-> "POST",
                            url    |-> << server_url, "/segment" >>,
                            part   |-> [name      |-> "f[]",
                                        file_name |-> Unwrap(satellite_image').file_name,
                                        mime      |-> Unwrap(satellite_image').file_type,
                                        bytes     |-> Unwrap(satellite_image').data]] >>
      ]_vars

\* C14, witness: the two bytes of b.png are held and its request was issued.
C14_Witness ==
    /\ IsSome(satellite_image)
    /\ Unwrap(satellite_image).data = << 255, 1 >>
    /\ satellite_src \in Requested

\* C15: decoding, as done for the data field of a response, the base64
\* encoding of any byte sequence, the empty one included, gives the sequence
\* back; and the text "AAAA" decodes to the bytes 0, 0, 0.
C15_Base64RoundTrip ==
    /\ codec.pc = "roundtrip" =>
           codec.decoded = [tag |-> "Ok", value |-> codec.bytes]
    /\ (codec.pc = "decoded" /\ codec.text = << 0, 0, 0, 0 >>) =>
           codec.decoded = [tag |-> "Ok", value |-> << 0, 0, 0 >>]

\* C15, witness: two bytes that are no UTF-8 text went through the round
\* trip, with a padded encoding.
C15_Witness ==
    /\ codec.pc = "roundtrip"
    /\ codec.bytes = << 255, 128 >>
    /\ codec.text[4] = Pad
    /\ codec.decoded.tag = "Ok"

\* C16: in every reachable state, mask_image populated implies
\* satellite_image populated.
C16_MaskImpliesSatellite == IsSome(mask_image) => IsSome(satellite_image)

\* C17: after each processed FinishRead satellite_image is the file of that
\* read, the one completed last; satellite_image is absent exactly when no
\* FinishRead was processed since the last AddNewImage.
C17_LastCompletionWins ==
    /\ last.msg = "FinishRead" =>
           /\ satellite_src = last.id
           /\ \E q \in futures :
                  /\ q.id = last.id
                  /\ satellite_image = Some([file_name |-> q.file_name,
                                             file_type |-> q.file_type,
                                             data      |-> q.data])
    /\ (satellite_image = None) <=> (satellite_src = 0)
    /\ satellite_src # 0 => satellite_src \in finished

\* C17, witness: a FinishRead replaced the file of a read completed before it.
C17_Witness ==
    /\ last.msg = "FinishRead"
    /\ IsSome(last.pre[1])
    /\ IsSome(satellite_image)
    /\ satellite_image # last.pre[1]

\* C18: AddNewImage with an empty file list clears both slots, starts no read,
\* adds no readers entry, issues no request and cancels no read or request in
\* flight.
C18_EmptySelectionOnlyClears ==
    [][ AddNewImage(upload_files(None)) =>
            /\ satellite_image' = None
            /\ mask_image' = None
            /\ readers' = readers
            /\ reading' = reading
            /\ futures' = futures
            /\ requests' = requests
            /\ nread' = nread
            /\ crashed' = crashed
      ]_vars

\* C18, witness: an empty selection was processed while a file was shown, a
\* read was in flight and a request future was pending.
C18_Witness ==
    /\ last.msg = "AddNewImage"
    /\ latest = {}
    /\ IsSome(last.pre[1])
    /\ satellite_image = None
    /\ reading # {}
    /\ futures # {}

====
